---- MODULE Spec2Model ----
(***************************************************************************)
(* zapvault: Node wrapper that drives an OWASP ZAP daemon.                 *)
(*                                                                         *)
(* The model follows src/index.js.  JavaScript runs one handler segment at *)
(* a time: an action of this model is the completion of one pending await  *)
(* together with all synchronous code up to the next await (or to the end  *)
(* of the handler).  Time is measured per scan as Date.now() - startedAt,  *)
(* i.e. the sum of the durations of the awaits the scan has gone through.  *)
(***************************************************************************)
EXTENDS Integers, Sequences, FiniteSets, TLC

\* ---------------------------------------------------------------- config
\* src/index.js:18-19
MAX_SCAN_TIME_MS == 3 * 60 * 1000
POLL_INTERVAL_MS == 3000

\* ---------------------------------------------------------------- bounds
\* A responsive daemon reports < 100% at most this many times per phase.
MaxBusyPolls == 1
\* At most this many remote calls of one scan take noticeable time.
MaxSlowCalls == 1

\* ------------------------------------------------------------- processes
\* Invocations of the setInterval callback and one POST /scan handler.  The
\* timer fires every hour whether or not the invocation before has returned
\* (lines 147-157 keep no flag), so two invocations can be suspended at once.
Sweeps == {"sweep", "nextSweep"}
Requests == {"scan"}
Procs == Sweeps \cup Requests

\* The daemon is a black box; three stub behaviours are explored.
DaemonBehaviours == {"responsive", "discoveryStalls", "activeProbeStalls"}

VARIABLES
    registeredSites, \* the Map, as the sequence of its entries in insertion order
    pc,              \* per process: the await it is suspended on, "idle" or "hung"
    target,          \* per process: the argument of the running performScan
    elapsed,         \* per process: Date.now() - startedAt of its scan
    slow,            \* per process: remote calls of this scan that took time
    trace,           \* per process: remote calls, waits and answers of this scan
    pos,             \* per sweep: index of the Map entry the for-of loop is at
    reply,           \* per request: the HTTP response sent by the step just taken
    cycleLog,        \* per sweep: the console lines of the running cycle
    stale,           \* sweeps whose scanned target was registered again meanwhile
    daemon,          \* the behaviour of the daemon in this run
    server,          \* the startup IIFE: "probing", "probeDelay", "listening", ...
    attempts         \* waitForZapReady: failed readiness attempts so far

vars == <<registeredSites, pc, target, elapsed, slow, trace, pos, reply,
          cycleLog, stale, daemon, server, attempts>>

\* The state of the startup sequence.
boot == <<server, attempts>>

\* ------------------------------------------------------------ normalizeUrl
\* Raw request inputs: what a caller may put in req.body.url, as the pieces
\* the WHATWG parser splits it into.
RawUrls ==
    { [scheme |-> "http",  host |-> "a.test", path |-> ""],
      [scheme |-> "HTTP",  host |-> "A.TEST", path |-> "/"],
      [scheme |-> "https", host |-> "b.test", path |-> "/"],
      [scheme |-> "ftp",   host |-> "a.test", path |-> "/"],
      [scheme |-> "",      host |-> "",       path |-> "/x"],
      [scheme |-> "",      host |-> "",       path |-> ""] }

Lower(s) ==
    CASE s = "HTTP"   -> "http"
      [] s = "A.TEST" -> "a.test"
      [] OTHER        -> s

Invalid == [protocol |-> "invalid", host |-> "", pathname |-> ""]
NoTarget == [protocol |-> "", host |-> "", pathname |-> ""]

\* new URL(u): throws for a string without a scheme; lower-cases scheme and
\* host; an empty path of a special scheme becomes "/".
ParseUrl(u) ==
    IF u.scheme = "" THEN Invalid
    ELSE [protocol |-> Lower(u.scheme),
          host     |-> Lower(u.host),
          pathname |-> IF u.path = "" THEN "/" ELSE u.path]

\* Any scheme passes.
normalizeAnyScheme(u) == ParseUrl(u)
normalizeUrl(u) ==
    LET parsed == ParseUrl(u) IN
    IF parsed = Invalid THEN Invalid
    ELSE IF parsed.protocol \notin {"http", "https"} THEN Invalid
    ELSE parsed

Targets == { normalizeUrl(u) : u \in RawUrls } \ {Invalid}

\* ------------------------------------------------------------ daemon data
\* A status answer: the values of the mapping sub-scan-id -> percentage string.
StatusValues == {"0", "42", "100"}
StatusAnswers ==
    { <<>>, <<"0">>, <<"42">>, <<"100">>, <<"0", "42">>, <<"42", "100">>,
      <<"100", "0">>, <<"100", "100">> }

\* What the daemon itself means by the answer: some sub-job is at 100.
Reports100(st) == \E i \in 1..Len(st) : st[i] = "100"

parseInt(s) ==
    CASE s = "0"   -> 0
      [] s = "42"  -> 42
      [] s = "100" -> 100

\* Math.max() of no arguments is -Infinity.
NegInfinity == 0 - 1
MathMin(S) == IF S = {} THEN NegInfinity
              ELSE CHOOSE m \in S : \A x \in S : m <= x
MathMax(S) == IF S = {} THEN NegInfinity
              ELSE CHOOSE m \in S : \A x \in S : x <= m

Perc(st) == MathMax({ parseInt(st[i]) : i \in 1..Len(st) })

PhaseDoneStrict(perc) == perc > 100
PhaseDoneAny(perc) == perc >= 0
PhaseDone(perc) == perc >= 100

\* An alert listing: the alerts field may be absent.
AlertBodies ==
    { [has |-> FALSE, alerts |-> <<>>],
      [has |-> TRUE,  alerts |-> <<>>],
      [has |-> TRUE,  alerts |-> <<"a1">>] }

\* alerts.alerts || []
AlertsOf(body) == IF body.has THEN body.alerts ELSE <<>>

\* ------------------------------------------------------------ the registry
Fresh == [lastScan |-> "null", alerts |-> <<>>]

Keys(m) == { m[i].url : i \in 1..Len(m) }
IndexOf(m, k) == CHOOSE i \in 1..Len(m) : m[i].url = k
Get(m, k) == LET e == m[IndexOf(m, k)] IN
             [lastScan |-> e.lastScan, alerts |-> e.alerts]

Entry(k, v) == [url |-> k, lastScan |-> v.lastScan, alerts |-> v.alerts]

MapSetAppend(m, k, v) == Append(m, Entry(k, v))
\* Map.prototype.set: replaces the value of a present key in place, appends
\* a new key at the end.
MapSet(m, k, v) ==
    IF k \in Keys(m)
    THEN [i \in 1..Len(m) |-> IF m[i].url = k THEN Entry(k, v) ELSE m[i]]
    ELSE Append(m, Entry(k, v))

\* A response of POST /scan or /quick-scan: res.status, the JSON body (a field
\* the body does not have is Absent), and (for the timing properties)
\* the time after which a timeout error was thrown, 0 if none was.
Absent == "absent"
NoReply == [status |-> 0, error |-> "", detail |-> "", target |-> NoTarget,
            alerts |-> <<>>, mode |-> Absent, completedAt |-> Absent,
            timeoutAt |-> 0]

\* No handler has answered in this step.
NoReplies == [p \in Requests |-> NoReply]

\* res.status(500).json({error, detail}).
Failure(error, detail, at) ==
    [status |-> 500, error |-> error, detail |-> detail, target |-> NoTarget,
     alerts |-> <<>>, mode |-> Absent, completedAt |-> Absent,
     timeoutAt |-> at]

\* res.json(result) with the object performScan returns (line 87).
ScanResult(t, alerts) ==
    [status |-> 200, error |-> "", detail |-> "", target |-> t,
     alerts |-> alerts, mode |-> Absent, completedAt |-> "iso",
     timeoutAt |-> 0]

QuickResultUntagged(t, alerts) == ScanResult(t, alerts)
\* res.json(result) with the object performQuickScan returns (line 97).
QuickResult(t, alerts) ==
    [status |-> 200, error |-> "", detail |-> "", target |-> t,
     alerts |-> alerts, mode |-> "quick-passive", completedAt |-> "iso",
     timeoutAt |-> 0]

Init ==
    /\ registeredSites = <<>>
    /\ pc = [p \in Procs |-> "idle"]
    /\ target = [p \in Procs |-> NoTarget]
    /\ elapsed = [p \in Procs |-> 0]
    /\ slow = [p \in Procs |-> 0]
    /\ trace = [p \in Procs |-> <<>>]
    /\ pos = [p \in Sweeps |-> 0]
    /\ reply = NoReplies
    /\ cycleLog = [p \in Sweeps |-> <<>>]
    /\ stale = {}
    /\ daemon \in DaemonBehaviours
    /\ server = "probing"
    /\ attempts = 0


\* ------------------------------------------------------- remote call model
\* axios.get has no timeout (zapApi, line 43): a call answers, or fails, or
\* never settles.  An answer may take time; the time counts in Date.now().
InFlight(p) == pc[p] \notin {"idle"}
Alone(p) == \A q \in Procs \ {p} : pc[q] = "idle"

\* Exploration bounds.  Slow answers are explored for the scan of a request
\* while it is the only one in flight, a busy daemon for any scan while it is
\* the only one in flight; overlapping scans are explored against the
\* responsive daemon, and against a stalling daemon the environment starts one
\* scan at a time.  At most two scans are in flight at a time.
Latencies(p) == IF slow[p] < MaxSlowCalls /\ Alone(p) /\ p \in Requests
                THEN {0, POLL_INTERVAL_MS} ELSE {0}
SlowAfter(p, d) == IF d > 0 THEN slow[p] + 1 ELSE slow[p]
CanStart(p) ==
    \/ Alone(p)
    \/ /\ daemon = "responsive"
       /\ Cardinality({ q \in Procs \ {p} : pc[q] # "idle" }) <= 1

\* The answers the daemon gives to a status query of the given phase, after
\* it has answered `busy` queries of that phase with < 100.
StatusChoices(p, phase, busy) ==
    LET stalls == \/ (phase = "spider" /\ daemon = "discoveryStalls")
                  \/ (phase = "ascan"  /\ daemon = "activeProbeStalls")
    IN  { st \in StatusAnswers :
            IF stalls THEN ~Reports100(st)
            ELSE Reports100(st) \/ (busy < MaxBusyPolls /\ Alone(p)) }

\* The < 100 answers of the running phase, read off the trace.
RECURSIVE BusyTail(_)
BusyTail(tr) ==
    IF tr = <<>> THEN 0
    ELSE LET last == tr[Len(tr)] IN
         IF last \in {"spider.scan", "ascan.scan"} THEN 0
         ELSE (IF last = "<100" THEN 1 ELSE 0)
              + BusyTail(SubSeq(tr, 1, Len(tr) - 1))

AnswerTag(st) == IF Reports100(st) THEN "100" ELSE "<100"

\* -------------------------------------------------------------- performScan
\* A process moves on inside performScan.
Goto(p, newpc, at, sl, tr) ==
    /\ pc' = [pc EXCEPT ![p] = newpc]
    /\ elapsed' = [elapsed EXCEPT ![p] = at]
    /\ slow' = [slow EXCEPT ![p] = sl]
    /\ trace' = [trace EXCEPT ![p] = tr]
    /\ reply' = NoReplies
    /\ UNCHANGED <<registeredSites, target, pos, cycleLog, stale, daemon, boot>>

\* The awaited promise never settles: the locals of the scan are never read
\* again (they are cleared here), the process stays suspended for good.
Hang(p) ==
    /\ pc' = [pc EXCEPT ![p] = "hung"]
    /\ elapsed' = [elapsed EXCEPT ![p] = 0]
    /\ slow' = [slow EXCEPT ![p] = 0]
    /\ trace' = [trace EXCEPT ![p] = <<>>]
    /\ reply' = NoReplies
    /\ UNCHANGED <<registeredSites, target, pos, cycleLog, stale, daemon, boot>>

\* performScan is entered: startedAt is taken and the warm-up fetch is issued.
EnterScan(p, t) ==
    /\ pc' = [pc EXCEPT ![p] = "warmup"]
    /\ target' = [target EXCEPT ![p] = t]
    /\ elapsed' = [elapsed EXCEPT ![p] = 0]
    /\ slow' = [slow EXCEPT ![p] = 0]
    /\ trace' = [trace EXCEPT ![p] = <<"warmup">>]

\* for (const [url, info] of registeredSites): the loop goes to the entry
\* after index i of the Map as it is now, or ends.
SweepAdvance(p, m, i, lines) ==
    /\ registeredSites' = m
    /\ stale' = stale \ {p}
    /\ IF i < Len(m)
       THEN /\ pos' = [pos EXCEPT ![p] = i + 1]
            /\ cycleLog' = [cycleLog EXCEPT ![p] = lines]
            /\ EnterScan(p, m[i + 1].url)
       ELSE /\ pos' = [pos EXCEPT ![p] = 0]
            /\ cycleLog' = [cycleLog EXCEPT ![p] = <<>>]
            /\ pc' = [pc EXCEPT ![p] = "idle"]
            /\ target' = [target EXCEPT ![p] = NoTarget]
            /\ elapsed' = [elapsed EXCEPT ![p] = 0]
            /\ slow' = [slow EXCEPT ![p] = 0]
            /\ trace' = [trace EXCEPT ![p] = <<>>]
    /\ reply' = NoReplies
    /\ UNCHANGED <<daemon, boot>>

\* The for-of loop is left for good.
SweepAbort(p, m, i, lines) ==
    /\ registeredSites' = m
    /\ stale' = stale \ {p}
    /\ cycleLog' = [cycleLog EXCEPT ![p] = <<>>]
    /\ pos' = [pos EXCEPT ![p] = 0]
    /\ pc' = [pc EXCEPT ![p] = "idle"]
    /\ target' = [target EXCEPT ![p] = NoTarget]
    /\ elapsed' = [elapsed EXCEPT ![p] = 0]
    /\ slow' = [slow EXCEPT ![p] = 0]
    /\ trace' = [trace EXCEPT ![p] = <<>>]
    /\ reply' = NoReplies
    /\ UNCHANGED <<daemon, boot>>

\* The catch branch of the sweep: what it leaves in the registry.
CatchResets(m, url) == MapSet(m, url, Fresh)
CatchRegistry(m, url) == m

\* The catch branch of the sweep: log, then the loop goes on.
SweepCatch(p, m, i, lines) == SweepAdvance(p, m, i, lines)

SweepStoreNoAlerts(m, url, alerts) ==
    MapSet(m, url, [lastScan |-> "iso", alerts |-> <<>>])
SweepStoreUnstamped(m, url, alerts) ==
    MapSet(m, url, [lastScan |-> "null", alerts |-> alerts])
\* The success branch of the sweep (lines 150-152).
SweepStore(m, url, alerts) ==
    MapSet(m, url, [lastScan |-> "iso", alerts |-> alerts])

Timeouts == {"Timeout spider", "Timeout ascan"}

\* The handler stores the result it answers with.
RespondStores(m, r) ==
    IF r.status = 200
    THEN MapSet(m, r.target, [lastScan |-> r.completedAt, alerts |-> r.alerts])
    ELSE m
\* What the POST /scan and /quick-scan handlers do to the Map: nothing.
RespondRegistry(m, r) == m

\* The POST /scan or /quick-scan handler answers.
Respond(p, r) ==
    /\ reply' = [NoReplies EXCEPT ![p] = r]
    /\ pc' = [pc EXCEPT ![p] = "idle"]
    /\ target' = [target EXCEPT ![p] = NoTarget]
    /\ elapsed' = [elapsed EXCEPT ![p] = 0]
    /\ slow' = [slow EXCEPT ![p] = 0]
    /\ trace' = [trace EXCEPT ![p] = <<>>]
    /\ registeredSites' = RespondRegistry(registeredSites, r)
    /\ UNCHANGED <<pos, cycleLog, stale, daemon, boot>>

QuickPcs == {"quickWarmup", "quickInclude", "quickScanAll", "quickAlerts"}
QuickControlPcs == QuickPcs \ {"quickWarmup"}

\* performScan or performQuickScan throws: the caller's catch runs.
Throw(p, msg, at) ==
    IF p \in Requests
    THEN Respond(p, Failure(IF pc[p] \in QuickPcs THEN "Quick scan failed"
                                                  ELSE "Scan failed",
                            msg, IF msg \in Timeouts THEN at ELSE 0))
    ELSE SweepCatch(p, CatchRegistry(registeredSites, target[p]), pos[p],
                    Append(cycleLog[p], [line |-> "Failed", detail |-> msg]))

\* performScan returns {target, completedAt, alerts}.
Return(p, alerts) ==
    IF p \in Requests
    THEN Respond(p, ScanResult(target[p], alerts))
    ELSE SweepAdvance(p, SweepStore(registeredSites, target[p], alerts), pos[p],
                      Append(cycleLog[p], [line |-> "Scanned", detail |-> ""]))

\* The head of a polling loop: the budget check, then the timer is set.
LoopHead(p, phase, at, sl, tr) ==
    IF at > MAX_SCAN_TIME_MS
    THEN Throw(p, IF phase = "spider" THEN "Timeout spider" ELSE "Timeout ascan", at)
    ELSE Goto(p, IF phase = "spider" THEN "spiderSleep" ELSE "ascanSleep",
              at, sl, Append(tr, "wait"))

\* line 61: the warm-up fetch settles (a failure is swallowed); line 64.
WarmupDone(p) ==
    /\ pc[p] = "warmup"
    /\ \E d \in Latencies(p) :
         Goto(p, "spiderStart", elapsed[p] + d, SlowAfter(p, d),
              Append(trace[p], "spider.scan"))

\* line 64 settles; lines 65-68.
StartDone(p, phase) ==
    /\ pc[p] = (IF phase = "spider" THEN "spiderStart" ELSE "ascanStart")
    /\ \E d \in Latencies(p) :
         LoopHead(p, phase, elapsed[p] + d, SlowAfter(p, d), trace[p])

\* line 68: the timer fires; line 69: the status query is issued.
SleepDone(p, phase) ==
    /\ pc[p] = (IF phase = "spider" THEN "spiderSleep" ELSE "ascanSleep")
    /\ Goto(p, IF phase = "spider" THEN "spiderStatus" ELSE "ascanStatus",
            elapsed[p] + POLL_INTERVAL_MS, slow[p],
            Append(trace[p], IF phase = "spider" THEN "spider.status"
                                                 ELSE "ascan.status"))

\* lines 69-72 / 80-83: the status answer; then the next call or the loop head.
StatusDoneWith(p, phase, d, st) ==
    LET at == elapsed[p] + d
        sl == SlowAfter(p, d)
        tr == Append(trace[p], AnswerTag(st))
    IN  IF PhaseDone(Perc(st))
        THEN Goto(p, IF phase = "spider" THEN "ascanStart" ELSE "alerts",
                  at, sl,
                  Append(tr, IF phase = "spider" THEN "ascan.scan"
                                                 ELSE "core.alerts"))
        ELSE LoopHead(p, phase, at, sl, tr)
StatusDone(p, phase) ==
    /\ pc[p] = (IF phase = "spider" THEN "spiderStatus" ELSE "ascanStatus")
    /\ \E d \in Latencies(p), st \in StatusChoices(p, phase, BusyTail(trace[p])) :
         StatusDoneWith(p, phase, d, st)

\* line 85 settles; line 87.
AlertsDoneWith(p, body) == Return(p, AlertsOf(body))
AlertsDone(p) ==
    /\ pc[p] = "alerts"
    /\ \E body \in AlertBodies : AlertsDoneWith(p, body)

ControlPcs == {"spiderStart", "spiderStatus", "ascanStart", "ascanStatus", "alerts"}
RemotePcs == ControlPcs \cup {"warmup"}

\* The failed call is issued once more.
CallRetried(p) ==
    /\ pc[p] \in ControlPcs
    /\ Goto(p, pc[p], elapsed[p], slow[p],
            IF trace[p][Len(trace[p])] = "retry" THEN trace[p]
            ELSE Append(trace[p], "retry"))
\* zapApi rejects (transport error or non-2xx): performScan rethrows.
CallFails(p) ==
    /\ pc[p] \in ControlPcs \cup QuickControlPcs
    /\ \E d \in Latencies(p) : Throw(p, "RemoteUnavailable", elapsed[p] + d)

\* A remote call (warm-up or control) never settles.
CallHangs(p) ==
    /\ pc[p] \in RemotePcs \cup QuickPcs
    /\ Hang(p)

\* ---------------------------------------------------------- performQuickScan
\* The remote calls of a quick scan in the order of lines 92-96.
QuickCalls ==
    <<"warmup", "context.includeInContext", "pscan.scanAllInScope", "core.alerts">>

\* The awaited call of lines 92, 94 or 95 settles (a failure of the warm-up is
\* swallowed) and the call of the next line is issued.
QuickCallDone(p) ==
    /\ pc[p] \in QuickPcs \ {"quickAlerts"}
    /\ Goto(p, CASE pc[p] = "quickWarmup"  -> "quickInclude"
                  [] pc[p] = "quickInclude" -> "quickScanAll"
                  [] pc[p] = "quickScanAll" -> "quickAlerts",
            elapsed[p], slow[p],
            Append(trace[p], QuickCalls[Len(trace[p]) + 1]))

\* line 96 settles; line 97; line 139.
QuickAlertsDoneWith(p, body) ==
    Respond(p, QuickResult(target[p], AlertsOf(body)))
QuickAlertsDone(p) ==
    /\ pc[p] = "quickAlerts"
    /\ \E body \in AlertBodies : QuickAlertsDoneWith(p, body)

\* ----------------------------------------------------------------- startup
\* waitForZapReady (lines 101-117) inside the startup IIFE (lines 181-190).
maxAttempts == 30

StartupDone(st) ==
    /\ server' = st
    /\ attempts' = 0
    /\ UNCHANGED <<registeredSites, pc, target, elapsed, slow, trace, pos, reply,
                   cycleLog, stale, daemon>>

\* line 107 answers: waitForZapReady returns true, line 185 app.listen.
ReadyProbeOk ==
    /\ server = "probing"
    /\ StartupDone("listening")

\* line 107 rejects: lines 111-113, attempts++ and the delay timer is set.
ReadyProbeFails ==
    /\ server = "probing"
    /\ server' = "probeDelay"
    /\ attempts' = attempts + 1
    /\ UNCHANGED <<registeredSites, pc, target, elapsed, slow, trace, pos, reply,
                   cycleLog, stale, daemon>>

\* line 113: the delay is over; line 105: the loop condition; line 116 throws
\* when the attempts are used up, and the catch of the IIFE (lines 186-189)
\* ends the process.
ReadyDelayDone ==
    /\ server = "probeDelay"
    /\ IF attempts < maxAttempts
       THEN /\ server' = "probing"
            /\ UNCHANGED <<registeredSites, pc, target, elapsed, slow, trace, pos,
                           reply, cycleLog, stale, daemon, attempts>>
       ELSE StartupDone("exited")

\* line 107 never settles (axios.get without timeout): app.listen is never
\* reached.
ReadyProbeHangs ==
    /\ server = "probing"
    /\ StartupDone("probeHung")

\* Requests are served once app.listen has run.
Listening == server = "listening"

\* ------------------------------------------------------------------ routes
\* POST /scan (lines 124-132).
ScanRequest(p, u) ==
    /\ Listening
    /\ pc[p] = "idle"
    /\ CanStart(p)
    /\ LET t == normalizeUrl(u) IN
       IF t = Invalid
       THEN Respond(p, Failure("Scan failed", "Invalid URL", 0))
       ELSE /\ EnterScan(p, t)
            /\ reply' = NoReplies
            /\ UNCHANGED <<registeredSites, pos, cycleLog, stale, daemon, boot>>

\* POST /quick-scan (lines 135-143).
QuickScanRequest(p, u) ==
    /\ Listening
    /\ pc[p] = "idle"
    /\ CanStart(p)
    /\ LET t == normalizeUrl(u) IN
       IF t = Invalid
       THEN Respond(p, Failure("Quick scan failed", "Invalid URL", 0))
       ELSE /\ pc' = [pc EXCEPT ![p] = "quickWarmup"]
            /\ target' = [target EXCEPT ![p] = t]
            /\ trace' = [trace EXCEPT ![p] = <<"warmup">>]
            /\ reply' = NoReplies
            /\ UNCHANGED <<registeredSites, elapsed, slow, pos, cycleLog, stale,
                           daemon, boot>>

\* A scan of the model is over within minutes and the timer period is an hour
\* (line 157): when the timer fires, the invocation before it is still there
\* only if one of its awaits never settles.
PreviousPending(p) == p = "nextSweep" => pc["sweep"] = "hung"

\* The setInterval callback (lines 147-157) starts.
Tick(p) ==
    /\ pc[p] = "idle"
    /\ PreviousPending(p)
    /\ CanStart(p)
    /\ Len(registeredSites) > 0
    /\ SweepAdvance(p, registeredSites, 0, <<>>)

\* POST /schedule (lines 159-167).
Schedule(u) ==
    /\ Listening
    /\ LET t == normalizeUrl(u) IN
       IF t = Invalid
       THEN UNCHANGED vars
       ELSE
         /\ registeredSites' = MapSet(registeredSites, t, Fresh)
         /\ stale' = stale \cup { p \in Sweeps : pc[p] # "idle" /\ target[p] = t }
         /\ reply' = NoReplies
         /\ UNCHANGED <<pc, target, elapsed, slow, trace, pos, cycleLog, daemon,
                        boot>>

\* What POST /schedule answers (lines 163-165).
ScheduleResponse(u) ==
    IF normalizeUrl(u) = Invalid
    THEN [status |-> 400, error |-> "Invalid URL", url |-> NoTarget]
    ELSE [status |-> 200, error |-> "", url |-> normalizeUrl(u)]

\* Object.fromEntries(registeredSites): an object with one property per key.
Snapshot(m) == [k \in Keys(m) |-> Get(m, k)]

\* GET /status (lines 169-171): the body it answers with, and the handler,
\* which reads the Map and writes nothing.
StatusResponse == Snapshot(registeredSites)
Status ==
    /\ Listening
    /\ UNCHANGED vars

Next ==
    \/ \E p \in Requests, u \in RawUrls : ScanRequest(p, u)
    \/ \E p \in Requests, u \in RawUrls : QuickScanRequest(p, u)
    \/ \E p \in Requests : QuickCallDone(p)
    \/ \E p \in Requests : QuickAlertsDone(p)
    \/ \E p \in Sweeps : Tick(p)
    \/ \E u \in RawUrls : Schedule(u)
    \/ Status
    \/ \E p \in Procs : WarmupDone(p)
    \/ \E p \in Procs, phase \in {"spider", "ascan"} : StartDone(p, phase)
    \/ \E p \in Procs, phase \in {"spider", "ascan"} : SleepDone(p, phase)
    \/ \E p \in Procs, phase \in {"spider", "ascan"} : StatusDone(p, phase)
    \/ \E p \in Procs : AlertsDone(p)
    \/ \E p \in Procs : CallFails(p)
    \/ \E p \in Procs : CallHangs(p)
    \/ ReadyProbeOk
    \/ ReadyProbeFails
    \/ ReadyDelayDone
    \/ ReadyProbeHangs

Spec == Init /\ [][Next]_vars

\* ================================================================ claims
ScanPcs == {"warmup", "spiderStart", "spiderSleep", "spiderStatus",
            "ascanStart", "ascanSleep", "ascanStatus", "alerts"}

\* C1: at most one full scan per target is in flight: while a scan of t has
\* started and neither returned nor failed, no other performScan(t) has a
\* control call pending.
C1_OneScanPerTarget ==
    \A p \in Procs, q \in Procs :
        (p # q /\ InFlight(p) /\ target[q] = target[p]) => pc[q] \notin ControlPcs

\* C2: a scan that times out in discovery fails at an elapsed time of at least
\* the budget and at most the budget plus one poll interval.
C2_DiscoveryTimeoutWindow ==
    \A p \in Requests :
        reply[p].detail = "Timeout spider" =>
            /\ reply[p].timeoutAt >= MAX_SCAN_TIME_MS
            /\ reply[p].timeoutAt <= MAX_SCAN_TIME_MS + POLL_INTERVAL_MS

\* C3: once the budget is exceeded the scan issues no further discovery status
\* poll and never goes on to start the active probe.
C3_NoPollPastBudget ==
    \A p \in Procs :
        pc[p] \in {"spiderStatus", "ascanStart"} => elapsed[p] <= MAX_SCAN_TIME_MS

\* C4: a scan that times out in the active-probe phase fails no later than the
\* budget plus one poll interval after the scan (not the phase) started.
C4_ActiveProbeTimeoutWindow ==
    \A p \in Requests :
        reply[p].detail = "Timeout ascan" =>
            reply[p].timeoutAt <= MAX_SCAN_TIME_MS + POLL_INTERVAL_MS

\* C5: when the daemon first reports 100% on the second discovery status
\* query, the scan has issued exactly two such queries, each after one wait,
\* the next control call is the active-probe start, and with no slow call the
\* phase ended exactly two poll intervals after the scan started.
IsAnswer(x) == x \in {"<100", "100"}
Answers(tr) == SelectSeq(tr, IsAnswer)
TwoPollDiscovery ==
    <<"warmup", "spider.scan", "wait", "spider.status", "<100",
      "wait", "spider.status", "100", "ascan.scan">>
C5_TwoPollsTwoIntervals ==
    \A p \in Procs :
        LET tr == trace[p]
            an == Answers(tr)
        IN  (Len(an) >= 2 /\ an[1] = "<100" /\ an[2] = "100") =>
                /\ Len(tr) >= Len(TwoPollDiscovery)
                /\ SubSeq(tr, 1, Len(TwoPollDiscovery)) = TwoPollDiscovery
                /\ (pc[p] = "ascanStart" /\ slow[p] = 0) =>
                       elapsed[p] = 2 * POLL_INTERVAL_MS
C5_Witness ==
    \E p \in Procs :
        /\ pc[p] = "ascanStart"
        /\ trace[p] = TwoPollDiscovery
        /\ elapsed[p] = 2 * POLL_INTERVAL_MS

\* C6: a scan of one target never keeps the sweep from the targets that
\* follow it: the sweep is never suspended for good while entries wait.
C6_SweepNotStarved ==
    \A p \in Sweeps :
        (pos[p] > 0 /\ pos[p] < Len(registeredSites)) => pc[p] # "hung"

\* C7: when a target is registered again while the sweep scans it, the reset
\* entry written by the registration survives the end of that scan.
C7_ResetNotOverwritten ==
    [][\A p \in Sweeps :
          p \in stale => Get(registeredSites', target[p]) = Fresh]_vars

\* C8: register(t) leaves t's entry {lastScan: null, alerts: []} whatever it
\* held, changes no other key, and registering t again changes nothing.
\* (A registration that changes neither the registry nor the staleness of a
\* running sweep is a stuttering step, which [..]_vars admits anyway.)
C8_RegisterResets ==
    [][\A u \in RawUrls :
          (/\ <<registeredSites, stale>>' # <<registeredSites, stale>>
           /\ normalizeUrl(u) # Invalid
           /\ Schedule(u)) =>
              LET t == normalizeUrl(u)
                  old == registeredSites
                  new == registeredSites'
              IN  /\ Keys(new) = Keys(old) \cup {t}
                  /\ Len(new) = Cardinality(Keys(new))
                  /\ Get(new, t) = Fresh
                  /\ \A k \in Keys(old) \ {t} : Get(new, k) = Get(old, k)
                  /\ MapSet(new, t, Fresh) = new]_vars
C8_Witness ==
    /\ Len(registeredSites) = 2
    /\ \E p \in stale : Get(registeredSites, target[p]) = Fresh
    /\ \E i \in 1..2 : registeredSites[i].alerts = <<"a1">>

\* The step in which the sweep's performScan throws.
SweepScanFails(p) ==
    \/ CallFails(p)
    \/ /\ pc[p] \in {"spiderStart", "spiderStatus", "ascanStart", "ascanStatus"}
       /\ pc'[p] \in {"idle", "warmup"}

\* C9: a failed sweep scan (control-call failure or timeout) writes nothing to
\* the registry: the entry of its target and every other entry stay as they are.
C9_FailureLeavesRegistry ==
    [][\A p \in Sweeps :
          SweepScanFails(p) => registeredSites' = registeredSites]_vars
C9_Witness ==
    \E p \in Sweeps :
        /\ pos[p] = 2
        /\ pc[p] \in ScanPcs
        /\ cycleLog[p] = <<[line |-> "Failed", detail |-> "RemoteUnavailable"]>>
        /\ registeredSites[1].lastScan = "iso"
        /\ registeredSites[1].alerts = <<"a1">>

\* C10: a failed scan never ends the sweep: in the same step the loop goes on
\* to the entry after the failed one, or the cycle is over; the sweep process
\* is still there.
C10_FailureDoesNotAbort ==
    [][\A p \in Sweeps :
          SweepScanFails(p) =>
              IF pos[p] < Len(registeredSites)
              THEN /\ pc'[p] = "warmup"
                   /\ pos'[p] = pos[p] + 1
                   /\ target'[p] = registeredSites[pos[p] + 1].url
              ELSE pc'[p] = "idle"]_vars
C10_Witness ==
    \E p \in Sweeps :
        /\ pos[p] = 2
        /\ pc[p] = "spiderStatus"
        /\ Len(cycleLog[p]) = 1
        /\ cycleLog[p][1].line = "Failed"
        /\ cycleLog[p][1].detail \in Timeouts

\* C11: when a sweep's scan of t succeeds, the entry of t becomes {lastScan:
\* the completion time (not null), alerts: the alerts that scan returned}, and
\* that is what a status query then answers for t; right after a registration
\* of t a status query answers {lastScan: null, alerts: []} for t.
C11_SweepSuccessStored ==
    [][/\ \A p \in Sweeps :
            pc[p] = "alerts" =>
                \A body \in AlertBodies :
                    AlertsDoneWith(p, body) =>
                        /\ target[p] \in DOMAIN StatusResponse'
                        /\ StatusResponse'[target[p]].lastScan # "null"
                        /\ StatusResponse'[target[p]].alerts =
                              (IF body.has THEN body.alerts ELSE <<>>)
       /\ registeredSites' # registeredSites =>
            \A u \in RawUrls :
                (normalizeUrl(u) # Invalid /\ Schedule(u)) =>
                    StatusResponse'[normalizeUrl(u)] = Fresh]_vars
C11_Witness ==
    /\ \A p \in Procs : pc[p] = "idle"
    /\ Len(registeredSites) = 1
    /\ StatusResponse[registeredSites[1].url] =
          [lastScan |-> "iso", alerts |-> <<"a1">>]

\* C12: a control call of a full scan that fails (in discovery, active probe or
\* collection) ends the scan at once: the caller gets the failure and no
\* result (a request: 500 without target or alerts; the sweep: the registry as
\* it was), the failed call is not issued again and the scan issues no further
\* call (what the process does next, if anything, is the warm-up of a new scan).
C12_FailureAbortsScan ==
    [][\A p \in Procs :
          (pc[p] \in ControlPcs /\ CallFails(p)) =>
              /\ pc'[p] \in {"idle", "warmup"}
              /\ trace'[p] \in {<<>>, <<"warmup">>}
              /\ p \in Requests =>
                    /\ pc'[p] = "idle"
                    /\ reply'[p].status = 500
                    /\ reply'[p].detail = "RemoteUnavailable"
                    /\ reply'[p].target = NoTarget
                    /\ reply'[p].alerts = <<>>
              /\ p \in Sweeps => registeredSites' = registeredSites]_vars
C12_Witness ==
    \E p \in Requests, q \in Sweeps :
        /\ pc[p] = "idle"
        /\ reply[p].detail = "RemoteUnavailable"
        /\ pos[q] = 2
        /\ cycleLog[q] = <<[line |-> "Failed", detail |-> "RemoteUnavailable"]>>
        /\ registeredSites[1].lastScan = "null"

\* C13: the remote calls of a quick scan are, in this order, the warm-up, the
\* scope inclusion, scan-all-in-scope and the alert listing, and no status
\* query; when the listing answers, the response is a result tagged
\* "quick-passive" for the target with exactly the listed alerts (none when the
\* alerts field is absent).
C13_QuickScanSequence ==
    [][\A p \in Requests :
          /\ pc'[p] \in QuickPcs =>
                /\ Len(trace'[p]) \in 1..Len(QuickCalls)
                /\ trace'[p] = SubSeq(QuickCalls, 1, Len(trace'[p]))
                /\ pc'[p] = "quickAlerts" <=> trace'[p] = QuickCalls
          /\ pc[p] = "quickAlerts" =>
                \A body \in AlertBodies :
                    QuickAlertsDoneWith(p, body) =>
                        /\ trace[p] = QuickCalls
                        /\ reply'[p].status = 200
                        /\ reply'[p].mode = "quick-passive"
                        /\ reply'[p].target = target[p]
                        /\ reply'[p].alerts =
                              (IF body.has THEN body.alerts ELSE <<>>)]_vars
C13_Witness ==
    \E p \in Requests :
        /\ reply[p].status = 200
        /\ reply[p].mode = "quick-passive"
        /\ reply[p].alerts = <<"a1">>
        /\ reply[p].target \in Keys(registeredSites)

\* C14: the result a successful full scan returns carries the target, a
\* completion timestamp, the collected alerts and the mode tag "full".
C14_FullResultTagged ==
    [][\A p \in Requests :
          pc[p] = "alerts" =>
              \A body \in AlertBodies :
                  AlertsDoneWith(p, body) =>
                      /\ reply'[p].status = 200
                      /\ reply'[p].target = target[p]
                      /\ reply'[p].completedAt # Absent
                      /\ reply'[p].alerts = (IF body.has THEN body.alerts ELSE <<>>)
                      /\ reply'[p].mode = "full"]_vars

\* C15: a request whose url is empty, relative or of a scheme other than
\* http/https fails normalization, and the handler (/scan, /quick-scan,
\* /schedule) then issues no remote call, neither the warm-up fetch nor a
\* control call, and leaves the registry as it is.  (A step of a request
\* handler is one in which the request process moves or a response is sent.)
InvalidInputs == { u \in RawUrls : u.scheme \notin {"http", "HTTP", "https"} }
InvalidInputsRejected == \A u \in InvalidInputs : normalizeUrl(u) = Invalid
C15_InvalidMakesNoCall ==
    [][/\ InvalidInputsRejected
       /\ \A p \in Requests :
            (pc[p] = "idle" /\ (pc'[p] # "idle" \/ reply'[p] # NoReply)) =>
                \A u \in InvalidInputs :
                    (ScanRequest(p, u) \/ QuickScanRequest(p, u)) =>
                        /\ pc'[p] = "idle"
                        /\ trace'[p] = <<>>
                        /\ reply'[p].detail = "Invalid URL"
                        /\ registeredSites' = registeredSites
       /\ \A u \in InvalidInputs :
            Schedule(u) =>
                /\ ScheduleResponse(u).error = "Invalid URL"
                /\ UNCHANGED <<pc, trace, registeredSites>>]_vars
C15_Witness ==
    \E p \in Requests :
        /\ reply[p].error = "Quick scan failed"
        /\ reply[p].detail = "Invalid URL"
        /\ pc[p] = "idle"
        /\ Len(registeredSites) = 1

\* C16: an invalid target is answered with a 4xx status on /scan, /quick-scan
\* and /schedule, and an unavailable daemon or a timeout with a 5xx status.
C16_InvalidTargetIs4xx ==
    /\ \A u \in RawUrls :
          normalizeUrl(u) = Invalid => ScheduleResponse(u).status \in 400..499
    /\ \A p \in Requests :
          /\ reply[p].detail = "Invalid URL" => reply[p].status \in 400..499
          /\ reply[p].detail \in Timeouts \cup {"RemoteUnavailable"} =>
                reply[p].status \in 500..599

\* C17: a failed readiness probe does not keep the service from starting: when
\* the last readiness attempt has failed the service goes on to listen, and
\* the process never exits over the daemon's readiness.
C17_ProbeFailureNonFatal ==
    [][/\ server' # "exited"
       /\ (server = "probeDelay" /\ attempts = maxAttempts /\ server' # server) =>
            server' = "listening"]_vars

\* C18: the control calls of a full scan come in the order start-discovery,
\* discovery status polls, start-active-probe, active-probe status polls, alert
\* listing; the active probe is started right after a discovery poll whose
\* answer reported a sub-job at 100, and the alerts are listed right after
\* such an answer to an active-probe poll.
LaterPhase == {"ascan.scan", "ascan.status", "core.alerts"}
ControlCalls == {"spider.scan", "spider.status"} \cup LaterPhase
FullScanOrder(tr) ==
    \A i \in 1..Len(tr) :
        LET before == { tr[j] : j \in 1..(i - 1) } IN
        /\ tr[i] = "spider.scan" => before \cap ControlCalls = {}
        /\ tr[i] = "spider.status" =>
              "spider.scan" \in before /\ before \cap LaterPhase = {}
        /\ tr[i] = "ascan.scan" =>
              /\ i > 2 /\ tr[i - 1] = "100" /\ tr[i - 2] = "spider.status"
              /\ before \cap LaterPhase = {}
        /\ tr[i] = "ascan.status" =>
              "ascan.scan" \in before /\ "core.alerts" \notin before
        /\ tr[i] = "core.alerts" =>
              /\ i > 2 /\ tr[i - 1] = "100" /\ tr[i - 2] = "ascan.status"
              /\ "core.alerts" \notin before
C18_PhaseOrder ==
    \A p \in Procs :
        /\ pc[p] \in ScanPcs => FullScanOrder(trace[p])
        /\ pc[p] = "spiderStart" => trace[p][Len(trace[p])] = "spider.scan"
        /\ pc[p] = "ascanStart" => trace[p][Len(trace[p])] = "ascan.scan"
        /\ pc[p] = "alerts" => trace[p][Len(trace[p])] = "core.alerts"
C18_Witness ==
    \E p \in Procs :
        /\ pc[p] = "alerts"
        /\ trace[p] = <<"warmup", "spider.scan", "wait", "spider.status", "<100",
                        "wait", "spider.status", "100", "ascan.scan",
                        "wait", "ascan.status", "<100",
                        "wait", "ascan.status", "100", "core.alerts">>

\* C19: at a status poll the phase is declared complete (the scan goes on to
\* the next call) exactly when the greatest percentage of the answer is at
\* least 100: one sub-job at 100 is enough whatever the others report, and an
\* answer with no entry or with every entry below 100 sends the scan back to
\* the loop head.
Percentages(st) == { parseInt(st[i]) : i \in 1..Len(st) }
OneAtHundred(st) == \E x \in Percentages(st) : x >= 100
PollPhase(p) ==
    CASE pc[p] = "spiderStatus" -> "spider"
      [] pc[p] = "ascanStatus"  -> "ascan"
      [] OTHER                  -> "none"
C19_MaxRuleCompletes ==
    [][\A p \in Procs :
          (PollPhase(p) # "none" /\ pc'[p] # pc[p]) =>
              \A d \in Latencies(p), st \in StatusAnswers :
                  StatusDoneWith(p, PollPhase(p), d, st) =>
                      IF OneAtHundred(st)
                      THEN pc'[p] = (IF PollPhase(p) = "spider" THEN "ascanStart"
                                                               ELSE "alerts")
                      ELSE pc'[p] \in {IF PollPhase(p) = "spider" THEN "spiderSleep"
                                                                 ELSE "ascanSleep",
                                       "idle", "warmup"}]_vars
C19_Witness ==
    \E p \in Procs :
        /\ pc[p] = "ascanStart"
        /\ Answers(trace[p]) = <<"<100", "100">>

\* C20: a step of a /scan or /quick-scan request (the request process moves
\* or a response is sent) and a status query leave the registry as it is,
\* whether the scan succeeds or fails and whether its target is registered.
C20_HandlersLeaveRegistry ==
    [][/\ \A p \in Requests :
            (pc'[p] # pc[p] \/ reply'[p] # NoReply) =>
                registeredSites' = registeredSites
       /\ Status => registeredSites' = registeredSites]_vars
C20_Witness ==
    \E p \in Requests :
        /\ reply[p].status = 200
        /\ reply[p].alerts = <<"a1">>
        /\ reply[p].target \in Keys(registeredSites)
        /\ Get(registeredSites, reply[p].target) = Fresh

\* C21: at most one sweep cycle is in progress at any time: a timer tick that
\* fires while the sweep before it is still suspended in a scan starts no scan.
C21_OneSweepAtATime ==
    Cardinality({ p \in Sweeps : pc[p] # "idle" }) <= 1

\* C22: every registry entry is either {lastScan: null, alerts: []} or has a
\* lastScan that is not null and the alerts one successful sweep scan of its
\* own target returned: a step that changes the registry leaves each entry
\* reset, as it was, or written by the sweep scan of that target which
\* completes in this step, with the alerts of that scan; no entry has
\* lastScan null with alerts, and no key leaves the registry.
C22_EntriesWellFormed ==
    [][registeredSites' # registeredSites =>
          /\ Keys(registeredSites) \subseteq Keys(registeredSites')
          /\ \A i \in 1..Len(registeredSites') :
                registeredSites'[i].lastScan = "null" =>
                    registeredSites'[i].alerts = <<>>
          /\ \A k \in Keys(registeredSites') :
                LET e == Get(registeredSites', k) IN
                \/ e = [lastScan |-> "null", alerts |-> <<>>]
                \/ k \in Keys(registeredSites) /\ e = Get(registeredSites, k)
                \/ /\ e.lastScan # "null"
                   /\ \E p \in Sweeps :
                        /\ pc[p] = "alerts"
                        /\ target[p] = k
                        /\ \E body \in AlertBodies :
                             /\ AlertsDoneWith(p, body)
                             /\ e.alerts = (IF body.has THEN body.alerts
                                                        ELSE <<>>)]_vars
C22_Witness ==
    /\ Len(registeredSites) = 2
    /\ Get(registeredSites, registeredSites[1].url) =
          [lastScan |-> "iso", alerts |-> <<"a1">>]
    /\ Get(registeredSites, registeredSites[2].url) =
          [lastScan |-> "null", alerts |-> <<>>]
    /\ \A p \in Sweeps : pc[p] = "idle"

====
